---- MODULE Spec2Model ----
(***************************************************************************)
(* Model of libdg_go: the fast Go board (board_fast.rs) and the            *)
(* Tromp-Taylor scoring routines (utils/score.rs).                         *)
(*                                                                         *)
(* The board is the vertex array of BoardFast, one record per vertex with  *)
(* the five packed fields.  The point space, the vertex codec, the chain   *)
(* iterator and the Zobrist table live in point.rs, point_state.rs,        *)
(* iter.rs and zobrist.rs; they are modelled from their description.       *)
(***************************************************************************)
EXTENDS Integers, Sequences, FiniteSets

\* ------------------------------------------------------------------ bounds
\* Three board geometries are explored: a square one, the smallest with a
\* point that has four playable neighbours; a wide one, the smallest on which
\* both colours can own territory; and a small square one, on which chains
\* are captured and their points replayed within a few moves.
\* MaxStones and MaxWideStones cap the stones on the board, MaxLiveMoves the
\* points played on before the board is cloned.
Size == 3
WideWidth == 4
WideHeight == 2
SmallSize == 2
MaxStones == 5
MaxWideStones == 4
MaxLiveMoves == 2

Geometries == { << Size, Size >>, << WideWidth, WideHeight >>, << SmallSize, SmallSize >> }

VARIABLES
    dims,           \* << width, height >> of the playable area (fixed at start)
    vertices,       \* BoardFast::vertices of the board being played
    zobrist_hash,   \* Board::zobrist_hash, the XOR of what place returned
    live            \* BoardFast::vertices of the board the played one was cloned from

vars == << dims, vertices, zobrist_hash, live >>

\* ------------------------------------------------------------- point space
\* The vertex array has one layout for both geometries: rows of Stride slots,
\* the playable area in the top-left corner behind one padding row and one
\* padding column; every other slot is padding, so each raw neighbour of a
\* playable point is a slot of the array.
Stride == (IF Size > WideWidth THEN Size ELSE WideWidth) + 2
Rows == (IF Size > WideHeight THEN Size ELSE WideHeight) + 2
\* Point::MAX
MAX == Stride * Rows
Slots == 0 .. (MAX - 1)
\* Point::default()
PointDefault == 0
\* Point::new(x, y)
ToIndex(x, y) == (y + 1) * Stride + (x + 1)
PlayableOf(d) == { ToIndex(x, y) : x \in 0 .. (d[1] - 1), y \in 0 .. (d[2] - 1) }

RECURSIVE SortedSeq(_)
SortedSeq(S) ==
    IF S = {} THEN << >>
    ELSE LET m == CHOOSE a \in S : \A b \in S : a <= b
         IN  << m >> \o SortedSeq(S \ {m})

PointAllTable == [ d \in Geometries |-> SortedSeq(PlayableOf(d)) ]
PlayableTable == [ d \in Geometries |-> PlayableOf(d) ]
NeighbourTable ==
    [ d \in Geometries |->
        [ p \in PlayableOf(d) |->
            { q \in PlayableOf(d) : q \in { p + Stride, p + 1, p - Stride, p - 1 } } ] ]

Playable == PlayableTable[dims]
\* Point::all(): the playable points in index order
PointAll == PointAllTable[dims]

\* AdjacentIter::new(p): the four raw neighbours in N, E, S, W order
AdjacentIter(p) == << p + Stride, p + 1, p - Stride, p - 1 >>

\* ------------------------------------------------------------ vertex codec
Black == "Black"
White == "White"
None == "None"
InvalidColor == "Invalid"
Colors == { Black, White }
opposite(c) == IF c = Black THEN White ELSE Black

LibertyModulus == 512

VertexEmpty ==
    [ color |-> None, next |-> 0, head |-> 0, libs |-> 0, visited |-> FALSE ]
VertexInvalid ==
    [ color |-> InvalidColor, next |-> 0, head |-> 0, libs |-> 0, visited |-> FALSE ]

\* Vertex::color(): Some(Black), Some(White) or None
color(v) == IF v.color \in Colors THEN v.color ELSE None
\* Vertex::is_valid()
vertex_is_valid(v) == v.color # InvalidColor
add_liberties(v, k) == [ v EXCEPT !.libs = (@ + k) % LibertyModulus ]
sub_liberties(v, k) == [ v EXCEPT !.libs = (@ + LibertyModulus - k) % LibertyModulus ]

\* ------------------------------------------------------------ zobrist hash
\* A 64-bit word is the set of its one bits; XOR is the symmetric difference.
XOR(a, b) == (a \ b) \cup (b \ a)
ColorIndex(c) == IF c = Black THEN 0 ELSE 1
\* zobrist::TABLE[color as usize][point]
TABLE(c, p) == { ColorIndex(c) * MAX + p }

\* ---------------------------------------------------------------- BoardFast
\* IsPartOf for BoardFast
is_part_of(board, point) == point \in Slots /\ vertex_is_valid(board[point])

\* new that leaves the padding slots with the empty encoding
BoardNewAllEmpty == [ p \in Slots |-> VertexEmpty ]

\* BoardFast::new()
BoardNew == [ p \in Slots |-> IF p \in Playable THEN VertexEmpty ELSE VertexInvalid ]

Contains(s, e) == \E i \in 1 .. Len(s) : s[i] = e

\* BoardFast::adjacent_to
adjacent_to(board, at_point) ==
    SelectSeq(AdjacentIter(at_point), LAMBDA q : is_part_of(board, q))

\* ChainIter: at_point, then next_point until at_point comes back
RECURSIVE ChainIter(_, _, _, _)
ChainIter(board, start, current, acc) ==
    LET acc1 == Append(acc, current)
        nxt == board[current].next
    IN  IF nxt = start \/ Len(acc1) >= MAX THEN acc1
        ELSE ChainIter(board, start, nxt, acc1)

\* BoardFast::block_at
block_at(board, at_point) == ChainIter(board, at_point, at_point, << >>)

\* BoardFast::get_n_liberty
get_n_liberty(board, at_point) == board[board[at_point].head].libs

\* BoardFast::has_n_liberty
has_n_liberty(board, at_point, n) == board[board[at_point].head].libs >= n

\* is_valid with the liberty threshold of the neighbour test off by one
is_valid_threshold_one(board, c, at_point) ==
    /\ color(board[at_point]) = None
    /\ \E i \in 1 .. Len(adjacent_to(board, at_point)) :
          LET other_point == adjacent_to(board, at_point)[i]
              value == color(board[other_point])
          IN  \/ value = None
              \/ (value = c) = has_n_liberty(board, other_point, 1)

\* BoardFast::is_valid
is_valid(board, c, at_point) ==
    /\ color(board[at_point]) = None
    /\ \E i \in 1 .. Len(adjacent_to(board, at_point)) :
          LET other_point == adjacent_to(board, at_point)[i]
              value == color(board[other_point])
          IN  \/ value = None
              \/ (value = c) = has_n_liberty(board, other_point, 2)

\* BoardFast::is_liberty_of
is_liberty_of(board, liberty, block) ==
    LET block_color == color(board[block])
        adj == adjacent_to(board, liberty)
    IN  \E i \in 1 .. Len(adj) :
            /\ color(board[adj[i]]) = block_color
            /\ board[adj[i]].head = block

\* The valid neighbours of every point of a chain, in scan order
RECURSIVE AdjacentOfAll(_, _, _)
AdjacentOfAll(board, points, i) ==
    IF i > Len(points) THEN << >>
    ELSE adjacent_to(board, points[i]) \o AdjacentOfAll(board, points, i + 1)

\* Option<Point>: the empty sequence is None, << q >> is Some(q)
Absent == << >>
Some(q) == << q >>

\* get_a_liberty that returns the first valid neighbour, empty or not
get_a_liberty_first_neighbour(board, at_point) ==
    LET cands == AdjacentOfAll(board, block_at(board, at_point), 1)
    IN  IF cands = << >> THEN Absent ELSE Some(cands[1])

\* The two loops of BoardFast::get_a_liberty, from candidate i on
RECURSIVE GetALibertyLoop(_, _, _)
GetALibertyLoop(board, cands, i) ==
    IF i > Len(cands) THEN Absent
    ELSE LET other_point == cands[i]
         IN  IF color(board[other_point]) = None THEN Some(other_point)
             ELSE GetALibertyLoop(board, cands, i + 1)

\* BoardFast::get_a_liberty
get_a_liberty(board, at_point) ==
    GetALibertyLoop(board, AdjacentOfAll(board, block_at(board, at_point), 1), 1)

\* The counting loop of join_blocks without the already_added flags
RECURSIVE CountAdditionalNoFlags(_, _, _, _, _, _)
CountAdditionalNoFlags(board, cands, i, head_two, already_added, n) ==
    IF i > Len(cands) THEN n
    ELSE LET adj_point == cands[i]
             is_empty == color(board[adj_point]) = None
         IN  IF is_empty /\ ~is_liberty_of(board, adj_point, head_two)
             THEN CountAdditionalNoFlags(board, cands, i + 1, head_two,
                                         already_added, n + 1)
             ELSE CountAdditionalNoFlags(board, cands, i + 1, head_two,
                                         already_added, n)

\* The counting loop of join_blocks: the empty neighbours of the first block
\* that are not yet liberties of the second one, each counted once through
\* the already_added flags.
RECURSIVE CountAdditional(_, _, _, _, _, _)
CountAdditional(board, cands, i, head_two, already_added, n) ==
    IF i > Len(cands) THEN n
    ELSE LET adj_point == cands[i]
             is_empty == color(board[adj_point]) = None
             is_new == adj_point \notin already_added
         IN  IF is_empty /\ is_new /\ ~is_liberty_of(board, adj_point, head_two)
             THEN CountAdditional(board, cands, i + 1, head_two,
                                  already_added \cup {adj_point}, n + 1)
             ELSE CountAdditional(board, cands, i + 1, head_two, already_added, n)

\* join_blocks that leaves the two circular lists apart
join_blocks_no_splice(board, one, two) ==
    LET head_one == board[one].head
        head_two == board[two].head
    IN  IF head_one = head_two THEN board
        ELSE
        LET b1 == [ board EXCEPT ![head_two] = sub_liberties(@, 1) ]
            block_one == block_at(b1, one)
            num_additional_liberties ==
                CountAdditional(b1, AdjacentOfAll(b1, block_one, 1), 1, head_two, {}, 0)
            b2 == [ p \in Slots |->
                      IF Contains(block_one, p)
                      THEN [ b1[p] EXCEPT !.head = head_two ] ELSE b1[p] ]
        IN  [ b2 EXCEPT ![head_two] = add_liberties(@, num_additional_liberties) ]

\* join_blocks that keeps the head of the first block: the roles of `one` and
\* `two` are exchanged
join_blocks_keeps_head_one(board, one, two) ==
    LET head_one == board[one].head
        head_two == board[two].head
    IN  IF head_one = head_two THEN board
        ELSE
        LET b1 == [ board EXCEPT ![head_one] = sub_liberties(@, 1) ]
            block_two == block_at(b1, two)
            num_additional_liberties ==
                CountAdditional(b1, AdjacentOfAll(b1, block_two, 1), 1, head_one, {}, 0)
            b2 == [ p \in Slots |->
                      IF Contains(block_two, p)
                      THEN [ b1[p] EXCEPT !.head = head_one ] ELSE b1[p] ]
            b3 == [ b2 EXCEPT ![head_one] = add_liberties(@, num_additional_liberties) ]
            one_prev == b3[one].next
            two_prev == b3[two].next
            b4 == [ b3 EXCEPT ![two].next = one_prev ]
        IN  [ b4 EXCEPT ![one].next = two_prev ]

\* join_blocks that moves only the vertex `one` to the head of the second block
join_blocks_head_of_one(board, one, two) ==
    LET head_one == board[one].head
        head_two == board[two].head
    IN  IF head_one = head_two THEN board
        ELSE
        LET b1 == [ board EXCEPT ![head_two] = sub_liberties(@, 1) ]
            block_one == block_at(b1, one)
            num_additional_liberties ==
                CountAdditional(b1, AdjacentOfAll(b1, block_one, 1), 1, head_two, {}, 0)
            b2 == [ b1 EXCEPT ![one].head = head_two ]
            b3 == [ b2 EXCEPT ![head_two] = add_liberties(@, num_additional_liberties) ]
            one_prev == b3[one].next
            two_prev == b3[two].next
            b4 == [ b3 EXCEPT ![two].next = one_prev ]
        IN  [ b4 EXCEPT ![one].next = two_prev ]

\* BoardFast::join_blocks
join_blocks(board, one, two) ==
    LET head_one == board[one].head
        head_two == board[two].head
    IN  IF head_one = head_two THEN board
        ELSE
        LET b1 == [ board EXCEPT ![head_two] = sub_liberties(@, 1) ]
            block_one == block_at(b1, one)
            num_additional_liberties ==
                CountAdditional(b1, AdjacentOfAll(b1, block_one, 1), 1, head_two, {}, 0)
            b2 == [ p \in Slots |->
                      IF Contains(block_one, p)
                      THEN [ b1[p] EXCEPT !.head = head_two ] ELSE b1[p] ]
            b3 == [ b2 EXCEPT ![head_two] = add_liberties(@, num_additional_liberties) ]
            one_prev == b3[one].next
            two_prev == b3[two].next
            b4 == [ b3 EXCEPT ![two].next = one_prev ]
        IN  [ b4 EXCEPT ![one].next = two_prev ]

\* incr_adjacent_liberties that gives no liberty back
IncrLoopNoAdd(board, starting_point, i, already_changed) == board

\* incr_adjacent_liberties without the already_changed test
RECURSIVE IncrLoopNoDedupe(_, _, _, _)
IncrLoopNoDedupe(board, starting_point, i, already_changed) ==
    IF i > 4 THEN board
    ELSE LET head == board[starting_point].head
             adj_point == AdjacentIter(starting_point)[i]
             adj_state == board[adj_point]
             adj_head == adj_state.head
         IN  IF color(adj_state) # None /\ adj_head # head
             THEN IncrLoopNoDedupe([ board EXCEPT ![adj_head] = add_liberties(@, 1) ],
                                   starting_point, i + 1, already_changed)
             ELSE IncrLoopNoDedupe(board, starting_point, i + 1, already_changed)

\* BoardFast::incr_adjacent_liberties, from neighbour slot i on
RECURSIVE IncrLoop(_, _, _, _)
IncrLoop(board, starting_point, i, already_changed) ==
    IF i > 4 THEN board
    ELSE LET head == board[starting_point].head
             adj_point == AdjacentIter(starting_point)[i]
             adj_state == board[adj_point]
             adj_head == adj_state.head
             is_different_block == adj_head # head
             is_already_changed == Contains(already_changed, adj_head)
         IN  IF color(adj_state) # None /\ is_different_block /\ ~is_already_changed
             THEN IncrLoop([ board EXCEPT ![adj_head] = add_liberties(@, 1) ],
                           starting_point, i + 1,
                           [ already_changed EXCEPT ![i] = adj_head ])
             ELSE IncrLoop(board, starting_point, i + 1, already_changed)

incr_adjacent_liberties(board, starting_point) ==
    IncrLoop(board, starting_point, 1,
             << PointDefault, PointDefault, PointDefault, PointDefault >>)

\* BoardFast::capture_if
RECURSIVE XorTable(_, _, _)
XorTable(c, points, i) ==
    IF i > Len(points) THEN {}
    ELSE XOR(TABLE(c, points[i]), XorTable(c, points, i + 1))

capture_if(board, c, at_point) == XorTable(c, block_at(board, at_point), 1)

\* BoardFast::capture: the members are visited through next_point, which the
\* loop body never writes.
RECURSIVE CaptureLoop(_, _, _, _, _)
CaptureLoop(board, c, points, i, hash) ==
    IF i > Len(points) THEN [ board |-> board, hash |-> hash ]
    ELSE LET other_index == points[i]
             b1 == [ board EXCEPT ![other_index].color = None ]
         IN  CaptureLoop(incr_adjacent_liberties(b1, other_index), c, points, i + 1,
                         XOR(hash, TABLE(c, other_index)))

\* capture that returns the table entry of at_point alone
capture_hash_of_one(board, c, at_point) ==
    [ board |-> CaptureLoop(board, c, block_at(board, at_point), 1, {}).board,
      hash |-> TABLE(c, at_point) ]

capture(board, c, at_point) == CaptureLoop(board, c, block_at(board, at_point), 1, {})

\* BoardFast::place_if, from neighbour slot i on
RECURSIVE PlaceIfLoop(_, _, _, _, _, _)
PlaceIfLoop(board, c, adj, i, seen_blocks, adjust) ==
    IF i > Len(adj) THEN adjust
    ELSE LET opponent == opposite(c)
             head == board[adj[i]].head
         IN  IF /\ color(board[head]) = opponent
                /\ ~has_n_liberty(board, head, 2)
                /\ ~Contains(seen_blocks, head)
             THEN PlaceIfLoop(board, c, adj, i + 1,
                              [ seen_blocks EXCEPT ![i] = head ],
                              XOR(adjust, capture_if(board, opponent, head)))
             ELSE PlaceIfLoop(board, c, adj, i + 1, seen_blocks, adjust)

place_if(board, c, at_point) ==
    PlaceIfLoop(board, c, adjacent_to(board, at_point), 1,
                << PointDefault, PointDefault, PointDefault, PointDefault >>,
                TABLE(c, at_point))

\* The neighbour loop of place without the liberty test before capture: the
\* opponent chain is never removed
RECURSIVE PlaceLoopNoCapture(_, _, _, _, _, _)
PlaceLoopNoCapture(board, c, at_point, i, seen_blocks, hash) ==
    IF i > 4 THEN [ board |-> board, hash |-> hash, trace |-> << >> ]
    ELSE LET opponent == opposite(c)
             other_point == AdjacentIter(at_point)[i]
             value == color(board[other_point])
             head == board[other_point].head
         IN  IF value = c
             THEN PlaceLoopNoCapture(join_blocks(board, at_point, other_point), c,
                                     at_point, i + 1, seen_blocks, hash)
             ELSE IF value = opponent /\ ~Contains(seen_blocks, head)
             THEN PlaceLoopNoCapture([ board EXCEPT ![head] = sub_liberties(@, 1) ],
                                     c, at_point, i + 1,
                                     [ seen_blocks EXCEPT ![i] = head ], hash)
             ELSE PlaceLoopNoCapture(board, c, at_point, i + 1, seen_blocks, hash)

\* The neighbour loop of place that does not record the opponent heads it has seen
RECURSIVE PlaceLoopNoSeen(_, _, _, _, _, _)
PlaceLoopNoSeen(board, c, at_point, i, seen_blocks, hash) ==
    IF i > 4 THEN [ board |-> board, hash |-> hash, trace |-> << >> ]
    ELSE LET opponent == opposite(c)
             other_point == AdjacentIter(at_point)[i]
             value == color(board[other_point])
             head == board[other_point].head
         IN  IF value = c
             THEN PlaceLoopNoSeen(join_blocks(board, at_point, other_point), c,
                                  at_point, i + 1, seen_blocks, hash)
             ELSE IF value = opponent
             THEN LET b1 == [ board EXCEPT ![head] = sub_liberties(@, 1) ]
                  IN  IF ~has_n_liberty(b1, head, 1)
                      THEN LET cap == capture(b1, opponent, head)
                           IN  PlaceLoopNoSeen(cap.board, c, at_point, i + 1,
                                               seen_blocks, XOR(hash, cap.hash))
                      ELSE PlaceLoopNoSeen(b1, c, at_point, i + 1, seen_blocks, hash)
             ELSE PlaceLoopNoSeen(board, c, at_point, i + 1, seen_blocks, hash)

\* The neighbour loop of BoardFast::place, from neighbour slot i on.  The
\* field "trace" of the result is a history of the calls the loop makes, each
\* with the board it is made on: << "join", board, at_point, other_point >>
\* for join_blocks, << "sub", board, head >> for sub_liberties(1) on an
\* opponent head, << "capture", board, head >> for capture
RECURSIVE PlaceLoop(_, _, _, _, _, _)
PlaceLoop(board, c, at_point, i, seen_blocks, hash) ==
    IF i > 4 THEN [ board |-> board, hash |-> hash, trace |-> << >> ]
    ELSE LET opponent == opposite(c)
             other_point == AdjacentIter(at_point)[i]
             value == color(board[other_point])
             head == board[other_point].head
         IN  IF value = c
             THEN LET r == PlaceLoop(join_blocks(board, at_point, other_point), c,
                                     at_point, i + 1, seen_blocks, hash)
                  IN  [ r EXCEPT !.trace =
                          << << "join", board, at_point, other_point >> >> \o @ ]
             ELSE IF value = opponent /\ ~Contains(seen_blocks, head)
             THEN LET b1 == [ board EXCEPT ![head] = sub_liberties(@, 1) ]
                      seen1 == [ seen_blocks EXCEPT ![i] = head ]
                  IN  IF ~has_n_liberty(b1, head, 1)
                      THEN LET cap == capture(b1, opponent, head)
                               r == PlaceLoop(cap.board, c, at_point, i + 1, seen1,
                                              XOR(hash, cap.hash))
                           IN  [ r EXCEPT !.trace =
                                   << << "sub", board, head >>,
                                      << "capture", b1, head >> >> \o @ ]
                      ELSE LET r == PlaceLoop(b1, c, at_point, i + 1, seen1, hash)
                           IN  [ r EXCEPT !.trace = << << "sub", board, head >> >> \o @ ]
             ELSE PlaceLoop(board, c, at_point, i + 1, seen_blocks, hash)

\* BoardFast::place
place(board, c, at_point) ==
    LET adj == adjacent_to(board, at_point)
        num_immediate_liberties ==
            Cardinality({ i \in 1 .. Len(adj) : color(board[adj[i]]) = None })
        b1 == [ board EXCEPT ![at_point] =
                  [ color |-> c, next |-> at_point, head |-> at_point,
                    libs |-> num_immediate_liberties % LibertyModulus,
                    visited |-> TRUE ] ]
    IN  PlaceLoop(b1, c, at_point, 1,
                  << PointDefault, PointDefault, PointDefault, PointDefault >>,
                  TABLE(c, at_point))

\* ------------------------------------------------------------------ scoring
Unreachable == 255
ByteModulus == 256

\* The state of the flood: the territory array, the FIFO probes and the
\* distance t of the probe being relaxed, with a log of every push_back
\* (the point and the distance it was given) and the peak length of the FIFO.
Max(x, y) == IF x > y THEN x ELSE y

\* The relaxation loop without the test that the neighbour is empty
RECURSIVE RelaxThroughStones(_, _, _, _)
RelaxThroughStones(board, adj, i, st) ==
    IF i > Len(adj) THEN st
    ELSE LET other_point == adj[i]
         IN  IF st.territory[other_point] > st.t
             THEN RelaxThroughStones(board, adj, i + 1,
                        [ st EXCEPT !.probes = Append(@, other_point),
                                    !.territory[other_point] = st.t,
                                    !.pushed = Append(@, << other_point, st.t >>),
                                    !.peak = Max(@, Len(st.probes) + 1) ])
             ELSE RelaxThroughStones(board, adj, i + 1, st)

\* The relaxation loop that also takes a neighbour whose distance is equal
RECURSIVE RelaxNotStrict(_, _, _, _)
RelaxNotStrict(board, adj, i, st) ==
    IF i > Len(adj) THEN st
    ELSE LET other_point == adj[i]
         IN  IF color(board[other_point]) = None /\ st.territory[other_point] >= st.t
             THEN RelaxNotStrict(board, adj, i + 1,
                        [ st EXCEPT !.probes = Append(@, other_point),
                                    !.territory[other_point] = st.t,
                                    !.pushed = Append(@, << other_point, st.t >>),
                                    !.peak = Max(@, Len(st.probes) + 1) ])
             ELSE RelaxNotStrict(board, adj, i + 1, st)

\* The relaxation loop of get_territory_distance over the FIFO `probes`
RECURSIVE Relax(_, _, _, _)
Relax(board, adj, i, st) ==
    IF i > Len(adj) THEN st
    ELSE LET other_point == adj[i]
         IN  IF color(board[other_point]) = None /\ st.territory[other_point] > st.t
             THEN Relax(board, adj, i + 1,
                        [ st EXCEPT !.probes = Append(@, other_point),
                                    !.territory[other_point] = st.t,
                                    !.pushed = Append(@, << other_point, st.t >>),
                                    !.peak = Max(@, Len(st.probes) + 1) ])
             ELSE Relax(board, adj, i + 1, st)

\* The while loop of get_territory_distance
RECURSIVE Flood(_, _)
Flood(board, st) ==
    IF st.probes = << >> THEN st
    ELSE LET index == Head(st.probes)
             t == (st.territory[index] + 1) % ByteModulus
         IN  Flood(board, Relax(board, adjacent_to(board, index), 1,
                                [ st EXCEPT !.probes = Tail(@), !.t = t ]))

\* get_territory_distance, with the log of its FIFO
TerritoryFlood(board, c) ==
    LET seeds == SelectSeq(PointAll, LAMBDA p : color(board[p]) = c)
    IN  Flood(board,
              [ territory |-> [ p \in Slots |->
                                  IF Contains(seeds, p) THEN 0 ELSE Unreachable ],
                probes |-> seeds,
                t |-> 0,
                pushed |-> [ k \in 1 .. Len(seeds) |-> << seeds[k], 0 >> ],
                peak |-> Len(seeds) ])

\* get_territory_distance
get_territory_distance(board, c) == TerritoryFlood(board, c).territory

\* get_tt_score
RECURSIVE TTLoop(_, _, _, _, _)
TTLoop(black_distance, white_distance, i, black, white) ==
    IF i > Len(PointAll) THEN << black, white >>
    ELSE LET p == PointAll[i]
         IN  IF black_distance[p] = 0
             THEN TTLoop(black_distance, white_distance, i + 1, black + 1, white)
             ELSE IF white_distance[p] = 0
             THEN TTLoop(black_distance, white_distance, i + 1, black, white + 1)
             ELSE IF white_distance[p] = Unreachable
             THEN TTLoop(black_distance, white_distance, i + 1, black + 1, white)
             ELSE IF black_distance[p] = Unreachable
             THEN TTLoop(black_distance, white_distance, i + 1, black, white + 1)
             ELSE TTLoop(black_distance, white_distance, i + 1, black, white)

get_tt_score(board) ==
    TTLoop(get_territory_distance(board, Black), get_territory_distance(board, White),
           1, 0, 0)

\* is_scorable without the test for a white stone
is_scorable_no_white(board) ==
    LET some_black == \E p \in Playable : color(board[p]) = Black
    IN  /\ some_black
        /\ LET black_distance == get_territory_distance(board, Black)
               white_distance == get_territory_distance(board, White)
           IN  \A p \in Playable :
                   black_distance[p] = Unreachable \/ white_distance[p] = Unreachable
        /\ \A p \in Playable : color(board[p]) = None \/ has_n_liberty(board, p, 2)

\* Score::is_scorable
is_scorable(board) ==
    LET some_black == \E p \in Playable : color(board[p]) = Black
        some_white == \E p \in Playable : color(board[p]) = White
    IN  /\ some_black
        /\ some_white
        /\ LET black_distance == get_territory_distance(board, Black)
               white_distance == get_territory_distance(board, White)
           IN  \A p \in Playable :
                   black_distance[p] = Unreachable \/ white_distance[p] = Unreachable
        /\ \A p \in Playable : color(board[p]) = None \/ has_n_liberty(board, p, 2)

\* Score::get_scorable_territory
get_scorable_territory(board) ==
    LET black_distance == get_territory_distance(board, Black)
        white_distance == get_territory_distance(board, White)
    IN  SelectSeq(PointAll,
                  LAMBDA i : black_distance[i] = Unreachable \/ white_distance[i] = Unreachable)

\* get_score without the test of the hash
get_score_unguarded(board, hash) == get_tt_score(board)

\* get_score with the test of the hash inverted
get_score_inverted(board, hash) ==
    IF hash = {} THEN get_tt_score(board) ELSE << 0, 0 >>

\* Score::get_score
get_score(board, hash) ==
    IF hash # {} THEN get_tt_score(board) ELSE << 0, 0 >>

\* Score::get_guess_score: the cleaned-up copy of the live board
guess_cleanup(live_board, finished) ==
    LET black_distance == get_territory_distance(finished, Black)
        white_distance == get_territory_distance(finished, White)
    IN  [ i \in Slots |->
            IF i \notin Playable THEN live_board[i]
            ELSE IF color(live_board[i]) = color(finished[i]) THEN live_board[i]
            ELSE IF color(live_board[i]) # None
            THEN IF color(finished[i]) = None
                 THEN LET is_dead_black == /\ color(live_board[i]) = Black
                                           /\ white_distance[i] # Unreachable
                          is_dead_white == /\ color(live_board[i]) = White
                                           /\ black_distance[i] # Unreachable
                      IN  IF is_dead_black \/ is_dead_white
                          THEN [ live_board[i] EXCEPT !.color = None ]
                          ELSE live_board[i]
                 ELSE [ live_board[i] EXCEPT !.color = None ]
            ELSE live_board[i] ]

get_guess_score(live_board, finished) == get_tt_score(guess_cleanup(live_board, finished))

\* StoneStatus
Alive == "Alive"
Dead == "Dead"
Seki == "Seki"
BlackTerritory == "BlackTerritory"
WhiteTerritory == "WhiteTerritory"
\* unreachable!()
Panic == "unreachable"

\* get_stone_status that gives a replaced stone the territory label of its own
\* colour
StatusAtOwnTerritory(live_board, finished, black_distance, white_distance, i) ==
    LET mine == color(live_board[i])
        theirs == color(finished[i])
    IN  IF mine = theirs
        THEN IF mine # None
             THEN << << i, << Alive,
                              IF mine = Black THEN BlackTerritory
                              ELSE IF mine = White THEN WhiteTerritory
                              ELSE Panic >> >> >>
             ELSE IF black_distance[i] # Unreachable /\ white_distance[i] = Unreachable
                  THEN << << i, << BlackTerritory >> >> >>
                  ELSE IF black_distance[i] = Unreachable /\ white_distance[i] # Unreachable
                  THEN << << i, << WhiteTerritory >> >> >>
                  ELSE << >>
        ELSE IF mine # None
        THEN IF theirs = None
             THEN LET is_dead_black == mine = Black /\ white_distance[i] # Unreachable
                      is_dead_white == mine = White /\ black_distance[i] # Unreachable
                  IN  IF is_dead_black THEN << << i, << Dead, WhiteTerritory >> >> >>
                      ELSE IF is_dead_white THEN << << i, << Dead, BlackTerritory >> >> >>
                      ELSE << >>
             ELSE << << i, << Dead,
                              IF mine = Black THEN BlackTerritory
                              ELSE IF mine = White THEN WhiteTerritory
                              ELSE Panic >> >> >>
        ELSE << << i, << IF theirs = Black THEN BlackTerritory
                         ELSE IF theirs = White THEN WhiteTerritory
                         ELSE Panic >> >> >>

\* Score::get_stone_status: the entries pushed for point i
StatusAt(live_board, finished, black_distance, white_distance, i) ==
    LET mine == color(live_board[i])
        theirs == color(finished[i])
    IN  IF mine = theirs
        THEN IF mine # None
             THEN << << i, << Alive,
                              IF mine = Black THEN BlackTerritory
                              ELSE IF mine = White THEN WhiteTerritory
                              ELSE Panic >> >> >>
             ELSE IF black_distance[i] # Unreachable /\ white_distance[i] = Unreachable
                  THEN << << i, << BlackTerritory >> >> >>
                  ELSE IF black_distance[i] = Unreachable /\ white_distance[i] # Unreachable
                  THEN << << i, << WhiteTerritory >> >> >>
                  ELSE << >>
        ELSE IF mine # None
        THEN IF theirs = None
             THEN LET is_dead_black == mine = Black /\ white_distance[i] # Unreachable
                      is_dead_white == mine = White /\ black_distance[i] # Unreachable
                  IN  IF is_dead_black THEN << << i, << Dead, WhiteTerritory >> >> >>
                      ELSE IF is_dead_white THEN << << i, << Dead, BlackTerritory >> >> >>
                      ELSE << >>
             ELSE << << i, << Dead,
                              IF mine = Black THEN WhiteTerritory
                              ELSE IF mine = White THEN BlackTerritory
                              ELSE Panic >> >> >>
        ELSE << << i, << IF theirs = Black THEN BlackTerritory
                         ELSE IF theirs = White THEN WhiteTerritory
                         ELSE Panic >> >> >>

RECURSIVE StatusLoop(_, _, _, _, _)
StatusLoop(live_board, finished, black_distance, white_distance, k) ==
    IF k > Len(PointAll) THEN << >>
    ELSE StatusAt(live_board, finished, black_distance, white_distance, PointAll[k])
             \o StatusLoop(live_board, finished, black_distance, white_distance, k + 1)

get_stone_status(live_board, finished) ==
    StatusLoop(live_board, finished,
               get_territory_distance(finished, Black),
               get_territory_distance(finished, White), 1)

\* -------------------------------------------------------------------- state
Stones(b) == { p \in Playable : color(b[p]) # None }

StoneCap == IF dims = << WideWidth, WideHeight >> THEN MaxWideStones ELSE MaxStones

Init ==
    /\ dims \in { << Size, Size >>, << SmallSize, SmallSize >> }
    /\ vertices = BoardNew
    /\ zobrist_hash = {}
    /\ live = BoardNew

InitWide ==
    /\ dims = << WideWidth, WideHeight >>
    /\ vertices = BoardNew
    /\ zobrist_hash = {}
    /\ live = BoardNew

InitGuess ==
    /\ dims = << SmallSize, SmallSize >>
    /\ vertices = BoardNew
    /\ zobrist_hash = {}
    /\ live = BoardNew

\* Board::place over BoardFast::place, for a move that is_valid accepts
Place(c, p) ==
    /\ Cardinality(Stones(vertices)) < StoneCap
    /\ is_valid(vertices, c, p)
    /\ \E r \in { place(vertices, c, p) } :
           /\ vertices' = r.board
           /\ zobrist_hash' = XOR(zobrist_hash, r.hash)
    /\ UNCHANGED << dims, live >>

\* The board is cloned: the clone stays as the live board while the play
\* goes on to the finished board that get_guess_score and get_stone_status
\* are given.  Until then the live board is the new board.
Clone ==
    /\ live = BoardNew
    /\ vertices # BoardNew
    /\ Cardinality({ p \in Playable : vertices[p].visited }) <= MaxLiveMoves
    /\ live' = vertices
    /\ UNCHANGED << dims, vertices, zobrist_hash >>

Next == \E c \in Colors, p \in Playable : Place(c, p)

\* Play on the square boards
Spec == Init /\ [][Next]_vars

\* Play on the wide board
SpecWide == InitWide /\ [][Next]_vars

NextGuess == Next \/ Clone

\* Play on the small board, with a live board cloned on the way
SpecGuess == InitGuess /\ [][NextGuess]_vars

\* ------------------------------------------------- notions the claims use
\* The playable points 4-adjacent to p
Neighbours(p) == NeighbourTable[dims][p]

SeqToSet(s) == { s[i] : i \in 1 .. Len(s) }
NoDuplicates(s) == \A i, j \in 1 .. Len(s) : s[i] = s[j] => i = j

\* The stones that carry the colour and the head_point of the stone at v
ChainMembers(b, v) ==
    { u \in Playable : color(b[u]) = color(b[v]) /\ b[u].head = b[v].head }

\* The empty points 4-adjacent to at least one point of S
LibertiesOf(b, S) ==
    { q \in Playable : color(b[q]) = None /\ \E u \in S : q \in Neighbours(u) }

\* A point left empty by a capture: place marks every stone as visited and
\* capture clears only the colour
WasCaptured(b, p) == color(b[p]) = None /\ b[p].visited

\* C1: for every stone v, the walk along next_point from v visits every
\* member of v's chain exactly once and then comes back to v; all the points
\* walked have v's colour and v's head_point; the head is its own head.
C1_ChainCycle ==
    \A v \in Playable :
        color(vertices[v]) # None =>
            LET walk == block_at(vertices, v)
            IN  /\ NoDuplicates(walk)
                /\ SeqToSet(walk) = ChainMembers(vertices, v)
                /\ vertices[walk[Len(walk)]].next = v
                /\ \A i \in 1 .. Len(walk) :
                       /\ color(vertices[walk[i]]) = color(vertices[v])
                       /\ vertices[walk[i]].head = vertices[v].head
                /\ vertices[vertices[v].head].head = vertices[v].head

\* A chain of four stones built by merging, next to a point emptied by a capture
C1_Witness ==
    /\ \E v \in Playable :
           /\ color(vertices[v]) # None
           /\ vertices[v].head # v
           /\ Len(block_at(vertices, v)) >= 3
    /\ \E q \in Playable : WasCaptured(vertices, q)

\* C2: the liberty count stored on the head of every chain is the number of
\* distinct empty points 4-adjacent to a member of the chain.
C2_LibertyCount ==
    \A v \in Playable :
        color(vertices[v]) # None =>
            vertices[vertices[v].head].libs =
                Cardinality(LibertiesOf(vertices, ChainMembers(vertices, v)))

\* A stone played last among its four friendly neighbours, which merges the
\* chains to its N, E, S and W, on a board where a capture has happened
C2_Witness ==
    /\ \E v \in Playable :
           /\ color(vertices[v]) # None
           /\ vertices[v].head # v
           /\ Cardinality(Neighbours(v)) = 4
           /\ \A q \in Neighbours(v) :
                  /\ color(vertices[q]) = color(vertices[v])
                  /\ vertices[q].next # q
    /\ \E q \in Playable : WasCaptured(vertices, q)

\* C3: after a legal place no chain is left without a liberty, neither by
\* its stored count nor on the board.
C3_NoZeroLiberties ==
    \A v \in Playable :
        color(vertices[v]) # None =>
            /\ get_n_liberty(vertices, v) # 0
            /\ LibertiesOf(vertices, ChainMembers(vertices, v)) # {}

\* A capture has happened and stones of both colours are on the board
C3_Witness ==
    /\ \E q \in Playable : WasCaptured(vertices, q)
    /\ \E v \in Playable : color(vertices[v]) = Black
    /\ \E v \in Playable : color(vertices[v]) = White

\* ----------------------------------------------- the rules, on colours alone
\* The colours of the playable points
ColorsOf(b) == [ p \in Playable |-> color(b[p]) ]

\* The maximal 4-connected set of points of colour c that contains S
RECURSIVE Grow(_, _, _)
Grow(col, S, c) ==
    LET S1 == S \cup { q \in Playable : col[q] = c /\ \E u \in S : q \in Neighbours(u) }
    IN  IF S1 = S THEN S ELSE Grow(col, S1, c)

Group(col, p) == Grow(col, {p}, col[p])

GroupLiberties(col, S) ==
    { q \in Playable : col[q] = None /\ \E u \in S : q \in Neighbours(u) }

\* The opponent stones that a stone of colour c at p leaves without liberty
Killed(col, c, p) ==
    LET col1 == [ col EXCEPT ![p] = c ]
    IN  { q \in Playable :
            col1[q] = opposite(c) /\ GroupLiberties(col1, Group(col1, q)) = {} }

\* The colours after a stone of colour c at p and the removal of Killed
AfterMove(col, c, p) ==
    LET killed == Killed(col, c, p)
    IN  [ q \in Playable |->
            IF q = p THEN c ELSE IF q \in killed THEN None ELSE col[q] ]

\* Tromp-Taylor legality without super-ko: p is empty and the move is no suicide
Legal(col, c, p) ==
    /\ col[p] = None
    /\ LET col2 == AfterMove(col, c, p)
       IN  GroupLiberties(col2, Group(col2, p)) # {}

\* The from-scratch hash of a board
RECURSIVE HashOfPoints(_, _)
HashOfPoints(b, S) ==
    IF S = {} THEN {}
    ELSE LET v == CHOOSE x \in S : TRUE
         IN  XOR(TABLE(color(b[v]), v), HashOfPoints(b, S \ {v}))

HashOf(b) == HashOfPoints(b, Stones(b))

\* The value returned by the place of the current step
Returned == XOR(zobrist_hash', zobrist_hash)

\* C4: is_valid(color, p) holds exactly when p is empty and the move is no
\* suicide; at a point without an empty neighbour, exactly when the move
\* captures an adjacent opponent chain or joins a friendly chain that keeps
\* a liberty.
C4_IsValidIffLegal ==
    \A c \in Colors, p \in Playable :
        LET col == ColorsOf(vertices)
            captures == \E q \in Neighbours(p) :
                           /\ col[q] = opposite(c)
                           /\ GroupLiberties(col, Group(col, q)) = {p}
            joins == \E q \in Neighbours(p) :
                        /\ col[q] = c
                        /\ GroupLiberties(col, Group(col, q)) \ {p} # {}
        IN  /\ is_valid(vertices, c, p) <=> Legal(col, c, p)
            /\ (col[p] = None /\ \A q \in Neighbours(p) : col[q] # None) =>
                   (is_valid(vertices, c, p) <=> (captures \/ joins))

\* An eye of White whose wall is in atari: Black may capture into it, White
\* may not fill it
C4_Witness ==
    \E p \in Playable :
        /\ color(vertices[p]) = None
        /\ \A q \in Neighbours(p) : color(vertices[q]) = White
        /\ is_valid(vertices, Black, p)
        /\ ~is_valid(vertices, White, p)

\* C5: the value place returns is H(after) XOR H(before), and the XOR of all
\* the values returned since the empty board is the hash of the board.
C5_HashDelta ==
    [][ /\ Returned = XOR(HashOf(vertices'), HashOf(vertices))
        /\ zobrist_hash' = HashOf(vertices') ]_vars

\* The board after a capturing move, with stones of both colours left
C5_Witness ==
    /\ \E q \in Playable : WasCaptured(vertices, q)
    /\ Cardinality({ color(vertices[v]) : v \in Stones(vertices) }) = 2
    /\ zobrist_hash = HashOf(vertices)

\* C6: place_if before a legal move is the value place then returns, and
\* capture_if of a chain is the value capture of that chain returns.
C6_PreviewsAgree ==
    /\ \A c \in Colors, p \in Playable :
           is_valid(vertices, c, p) =>
               place_if(vertices, c, p) = place(vertices, c, p).hash
    /\ \A q \in Playable :
           color(vertices[q]) # None =>
               capture_if(vertices, color(vertices[q]), q) =
                   capture(vertices, color(vertices[q]), q).hash

\* C7: a legal place changes the colour of the played point and of the stones
\* of the adjacent opponent chains whose only liberty was that point, and of
\* no other slot of the array.
C7_PlaceFrame ==
    [][ \E c \in Colors, p \in Playable :
          /\ color(vertices[p]) = None
          /\ vertices'[p].color = c
          /\ LET col == ColorsOf(vertices)
                 dead == { v \in Playable :
                             /\ col[v] = opposite(c)
                             /\ Group(col, v) \cap Neighbours(p) # {}
                             /\ GroupLiberties(col, Group(col, v)) = {p} }
             IN  \A v \in Slots \ {p} :
                     vertices'[v].color =
                         IF v \in dead THEN None ELSE vertices[v].color ]_vars

\* Two separate points emptied by captures while both colours have stones
C7_Witness ==
    /\ Cardinality({ q \in Playable : WasCaptured(vertices, q) }) >= 2
    /\ Cardinality({ color(vertices[v]) : v \in Stones(vertices) }) = 2

\* ------------------------------------------------------------ scoring claims
\* The boards get_tt_score is called with in the current state: the board
\* itself through get_score, once a stone has been played, and the cleaned-up
\* copy that get_guess_score makes of a new board, the current board being
\* the finished one.
TTScoreInputs ==
    (IF zobrist_hash # {} THEN { vertices } ELSE {})
        \cup { guess_cleanup(BoardNew, vertices) }

\* C8: is_scorable holds exactly when both colours have a stone, every
\* playable point is at distance 0xff from Black or from White, and every
\* stone belongs to a chain with at least two liberties.
C8_IsScorable ==
    LET col == ColorsOf(vertices)
        black_distance == get_territory_distance(vertices, Black)
        white_distance == get_territory_distance(vertices, White)
    IN  is_scorable(vertices) <=>
            /\ \E p \in Playable : col[p] = Black
            /\ \E p \in Playable : col[p] = White
            /\ \A p \in Playable :
                   black_distance[p] = Unreachable \/ white_distance[p] = Unreachable
            /\ \A p \in Playable :
                   col[p] # None =>
                       Cardinality(GroupLiberties(col, Group(col, p))) >= 2

\* A scorable board
C8_Witness == is_scorable(vertices)

\* C9: get_tt_score counts a point for Black iff it is a black stone, or no
\* white stone and at white distance 0xff, and for White under the same
\* condition with the colours swapped.
C9_TTScoreRule ==
    \A b \in TTScoreInputs :
        LET col == ColorsOf(b)
            black_distance == get_territory_distance(b, Black)
            white_distance == get_territory_distance(b, White)
            for_black == { p \in Playable :
                             \/ col[p] = Black
                             \/ white_distance[p] = Unreachable /\ col[p] # White }
            for_white == { p \in Playable :
                             \/ col[p] = White
                             \/ black_distance[p] = Unreachable /\ col[p] # Black }
        IN  get_tt_score(b) = << Cardinality(for_black), Cardinality(for_white) >>

NoStonePlaced == \A p \in Playable : ~vertices[p].visited

\* C11: on a board on which no stone has been placed get_score is (0, 0) and
\* is_scorable is false.
C11_EmptyBoard ==
    NoStonePlaced =>
        /\ get_score(vertices, zobrist_hash) = << 0, 0 >>
        /\ ~is_scorable(vertices)

\* The new board, scored
C11_Witness ==
    /\ NoStonePlaced
    /\ vertices = BoardNew
    /\ get_score(vertices, zobrist_hash) = << 0, 0 >>

\* C12: get_scorable_territory returns each playable point at most once, so
\* at most as many points as the board has, and on a scorable board every
\* point it returns is empty.
C12_ScorableTerritory ==
    LET returned == get_scorable_territory(vertices)
    IN  /\ Len(returned) <= Cardinality(Playable)
        /\ NoDuplicates(returned)
        /\ SeqToSet(returned) \subseteq Playable
        /\ is_scorable(vertices) =>
               \A i \in 1 .. Len(returned) : color(vertices[returned[i]]) = None

\* ------------------------------------------------ live and finished boards
\* The copy of the live board that get_guess_score scores in this state
Cleaned == guess_cleanup(live, vertices)

\* The stone at point i of the live board carries label l in get_stone_status
Labelled(i, l) ==
    LET status_list == get_stone_status(live, vertices)
    IN  \E k \in 1 .. Len(status_list) :
            /\ status_list[k][1] = i
            /\ \E j \in 1 .. Len(status_list[k][2]) : status_list[k][2][j] = l

\* C13: the copy get_guess_score scores keeps a live stone where the
\* finished board has the same colour and removes it where the finished
\* board is empty, whatever the territory there, or has the other colour.
C13_GuessCleanup ==
    \A i \in Playable :
        color(live[i]) # None =>
            color(Cleaned[i]) =
                IF color(live[i]) = color(vertices[i]) THEN color(live[i]) ELSE None

\* C14: get_stone_status labels a live stone Dead exactly when get_guess_score
\* removes it, and Alive exactly when get_guess_score keeps it.
C14_StatusMatchesGuess ==
    \A i \in Playable :
        color(live[i]) # None =>
            /\ Labelled(i, Dead) <=> color(Cleaned[i]) = None
            /\ Labelled(i, Alive) <=> color(Cleaned[i]) # None

\* ------------------------------------------------------------------ padding
Padding == Slots \ Playable

\* C15: every padding vertex holds the invalid encoding and is not part of
\* the board, whatever has been placed, merged and captured next to the edge.
C15_PaddingUntouched ==
    \A p \in Padding :
        /\ vertices[p] = VertexInvalid
        /\ ~is_part_of(vertices, p)

\* A capture at the edge and a merged chain with a stone at the edge
C15_Witness ==
    /\ \E q \in Playable : WasCaptured(vertices, q) /\ Cardinality(Neighbours(q)) < 4
    /\ \E v \in Playable :
           /\ color(vertices[v]) # None
           /\ vertices[v].head # v
           /\ Cardinality(Neighbours(v)) < 4

\* -------------------------------------------- chain fields of empty vertices
\* The board with the chain fields of every empty vertex as new() leaves them
Scrubbed(b) ==
    [ p \in Slots |->
        IF p \in Playable /\ color(b[p]) = None
        THEN [ b[p] EXCEPT !.next = 0, !.head = 0, !.libs = 0 ]
        ELSE b[p] ]

\* The liberty count on the head of the chain of every stone
HeadLiberties(b) == [ v \in Stones(b) |-> get_n_liberty(b, v) ]

\* C16: the board and the board with the chain fields of its empty vertices
\* cleared give the same is_valid, the same place_if and place for every
\* legal move, the same capture_if for every chain, and the same colours and
\* head liberty counts after place.
C16_EmptyFieldsUnread ==
    LET fresh == Scrubbed(vertices)
    IN  /\ \A c \in Colors, p \in Playable :
               /\ is_valid(vertices, c, p) = is_valid(fresh, c, p)
               /\ is_valid(vertices, c, p) =>
                      /\ place_if(vertices, c, p) = place_if(fresh, c, p)
                      /\ LET one == place(vertices, c, p)
                             two == place(fresh, c, p)
                         IN  /\ one.hash = two.hash
                             /\ ColorsOf(one.board) = ColorsOf(two.board)
                             /\ HeadLiberties(one.board) = HeadLiberties(two.board)
        /\ \A q \in Stones(vertices) :
               capture_if(vertices, color(vertices[q]), q) =
                   capture_if(fresh, color(vertices[q]), q)

\* --------------------------------------------------- chains and components
\* C17: the chain of every stone, the stones with its colour and head_point,
\* is the maximal 4-connected set of stones of its colour that contains it.
C17_ChainsAreComponents ==
    \A v \in Playable :
        color(vertices[v]) # None =>
            ChainMembers(vertices, v) = Group(ColorsOf(vertices), v)

\* A chain of three or more stones, a second chain of the same colour apart
\* from it, and a point emptied by a capture
C17_Witness ==
    /\ \E v, w \in Playable :
           /\ color(vertices[v]) # None
           /\ color(vertices[w]) = color(vertices[v])
           /\ vertices[w].head # vertices[v].head
           /\ Cardinality(ChainMembers(vertices, v)) >= 3
    /\ \E q \in Playable : WasCaptured(vertices, q)

\* ---------------------------------------------------------- territory flood
\* The length of the shortest path to each point from a stone of colour c
\* whose every step lands on an empty point, k being the length that the
\* points of `frontier` have; Unreachable where there is no such path.
RECURSIVE ShortestPaths(_, _, _, _)
ShortestPaths(col, dist, frontier, k) ==
    LET nxt == { q \in Playable :
                   /\ col[q] = None
                   /\ dist[q] = Unreachable
                   /\ q \notin frontier
                   /\ \E u \in frontier : q \in Neighbours(u) }
    IN  IF nxt = {} THEN dist
        ELSE ShortestPaths(col, [ q \in Playable |-> IF q \in nxt THEN k + 1 ELSE dist[q] ],
                           nxt, k + 1)

PathDistance(col, c) ==
    LET seeds == { q \in Playable : col[q] = c }
    IN  ShortestPaths(col, [ q \in Playable |-> IF q \in seeds THEN 0 ELSE Unreachable ],
                      seeds, 0)

\* C18: get_territory_distance is 0 on the stones of the colour, the length
\* of the shortest path over empty points on an empty point that has one,
\* and 0xff on the stones of the other colour and on the empty points
\* without such a path.
C18_TerritoryDistance ==
    \A c \in Colors :
        LET col == ColorsOf(vertices)
            territory == get_territory_distance(vertices, c)
            shortest == PathDistance(col, c)
        IN  \A p \in Playable :
                /\ territory[p] = shortest[p]
                /\ col[p] = c => territory[p] = 0
                /\ col[p] = opposite(c) => territory[p] = Unreachable

\* An empty point that Black reaches only around a white stone, by a path
\* longer than the one over the board without the white stones, and an empty
\* point that White does not reach
C18_Witness ==
    /\ \E p \in Playable :
           /\ color(vertices[p]) = None
           /\ get_territory_distance(vertices, Black)[p] # Unreachable
           /\ get_territory_distance(vertices, Black)[p] >
                  PathDistance([ q \in Playable |->
                                   IF color(vertices[q]) = White THEN None
                                   ELSE color(vertices[q]) ], Black)[p]
    /\ \E q \in Playable :
           /\ color(vertices[q]) = None
           /\ get_territory_distance(vertices, White)[q] = Unreachable
    /\ \E v \in Playable : color(vertices[v]) = White

\* C19: the flood of get_territory_distance ends with an empty FIFO; every
\* point is pushed at most once, the stones of the colour at distance 0 and
\* an empty point with the distance it has in the returned array; so the
\* FIFO never holds more than Point::MAX points, one less than its capacity.
C19_FloodPushesOnce ==
    \A c \in Colors :
        LET run == TerritoryFlood(vertices, c)
            points == [ k \in 1 .. Len(run.pushed) |-> run.pushed[k][1] ]
        IN  /\ run.probes = << >>
            /\ NoDuplicates(points)
            /\ \A k \in 1 .. Len(run.pushed) :
                   /\ run.territory[run.pushed[k][1]] = run.pushed[k][2]
                   /\ \/ color(vertices[run.pushed[k][1]]) = c /\ run.pushed[k][2] = 0
                      \/ color(vertices[run.pushed[k][1]]) = None /\ run.pushed[k][2] > 0
            /\ Len(run.pushed) <= MAX
            /\ run.peak <= MAX

\* A flood from two black stones that reaches an empty point next to two
\* points of the same distance, with a white stone on the board
C19_Witness ==
    LET run == TerritoryFlood(vertices, Black)
    IN  /\ Cardinality({ v \in Playable : color(vertices[v]) = Black }) >= 2
        /\ \E v \in Playable : color(vertices[v]) = White
        /\ \E q \in Playable :
               /\ color(vertices[q]) = None
               /\ run.territory[q] # Unreachable
               /\ Cardinality({ u \in Neighbours(q) :
                                   run.territory[u] = run.territory[q] - 1 }) >= 2

\* ------------------------------------------------------ the surviving head
\* The head_point, before the move, of every raw neighbour of p that holds a
\* stone of colour c, in the order of AdjacentIter
FriendlyHeads(b, c, p) ==
    LET friendly == SelectSeq(AdjacentIter(p), LAMBDA q : color(b[q]) = c)
    IN  [ k \in 1 .. Len(friendly) |-> b[friendly[k]].head ]

\* The element of a non-empty sequence that is met for the first time last
LastDistinct(heads) ==
    LET first(h) == CHOOSE i \in 1 .. Len(heads) :
                        heads[i] = h /\ \A j \in 1 .. (i - 1) : heads[j] # h
    IN  CHOOSE h \in SeqToSet(heads) :
            \A g \in SeqToSet(heads) : first(g) <= first(h)

\* C20: after place(c, p) next to friendly chains the head of the chain of p
\* is the head that the last distinct friendly chain met in N, E, S, W order
\* had before the move; the new stone is its own head only without a friendly
\* neighbour; and join_blocks of two points that share a head changes nothing.
C20_SurvivingHead ==
    [][ \E c \in Colors, p \in Playable :
          /\ color(vertices[p]) = None
          /\ color(vertices'[p]) = c
          /\ LET heads == FriendlyHeads(vertices, c, p)
             IN  /\ heads # << >> => vertices'[p].head = LastDistinct(heads)
                 /\ vertices'[p].head = p => heads = << >>
          /\ \A u, v \in Stones(vertices') :
                 vertices'[u].head = vertices'[v].head =>
                     join_blocks(vertices', u, v) = vertices' ]_vars

\* A legal move next to two friendly chains, the chain met first being met
\* again after the other one: place leaves the head of the other one
C20_Witness ==
    \E c \in Colors, p \in Playable :
        /\ is_valid(vertices, c, p)
        /\ Cardinality(Stones(vertices)) < StoneCap
        /\ LET heads == FriendlyHeads(vertices, c, p)
           IN  /\ Len(heads) = 3
               /\ heads[1] = heads[3]
               /\ heads[1] # heads[2]
               /\ place(vertices, c, p).board[p].head = heads[2]

\* ------------------------------------------------------------------ C21
\* The calls of one kind that place(c, p) makes on the current board
CallsOf(kind, c, p) ==
    SelectSeq(place(vertices, c, p).trace, LAMBDA e : e[1] = kind)

\* The heads of the chains other than the one made of `members` that have a
\* stone 4-adjacent to v
SurvivingHeads(b, members, v) ==
    { b[q].head : q \in { n \in Neighbours(v) : color(b[n]) # None /\ n \notin members } }

\* capture replayed one emptied vertex at a time, from member i on: each step
\* adds exactly 1 to the count of every surviving head and changes nothing else
RECURSIVE CaptureStepsRaiseOnce(_, _, _)
CaptureStepsRaiseOnce(b, points, i) ==
    IF i > Len(points) THEN TRUE
    ELSE LET v == points[i]
             b1 == [ b EXCEPT ![v].color = None ]
             b2 == incr_adjacent_liberties(b1, v)
             surviving == SurvivingHeads(b1, SeqToSet(points), v)
         IN  /\ \A s \in Slots :
                   b2[s] = IF s \in surviving
                           THEN [ b1[s] EXCEPT !.libs = @ + 1 ]
                           ELSE b1[s]
             /\ CaptureStepsRaiseOnce(b2, points, i + 1)

\* C21: in every capture that a legal placement performs, each vertex that
\* becomes Empty raises by exactly 1 the liberty count of every distinct
\* surviving chain 4-adjacent to it, never twice for a chain touching it on
\* several sides and never for the chain being captured; and Point::default()
\* is the head of no stone, neither on the boards place returns nor on the
\* boards capture is called on.
C21_CaptureRaisesOnce ==
    /\ \A q \in Playable : color(vertices[q]) # None => vertices[q].head # PointDefault
    /\ \A c \in Colors, p \in Playable :
           is_valid(vertices, c, p) =>
               LET calls == CallsOf("capture", c, p)
               IN  \A k \in 1 .. Len(calls) :
                       LET b == calls[k][2]
                       IN  /\ \A q \in Playable :
                                  color(b[q]) # None => b[q].head # PointDefault
                           /\ CaptureStepsRaiseOnce(b, block_at(b, calls[k][3]), 1)

\* A legal placement captures a chain one of whose stones touches the same
\* surviving chain on two sides
C21_Witness ==
    \E c \in Colors, p \in Playable :
        /\ is_valid(vertices, c, p)
        /\ LET calls == CallsOf("capture", c, p)
           IN  \E k \in 1 .. Len(calls) :
                   LET b == calls[k][2]
                       members == SeqToSet(block_at(b, calls[k][3]))
                   IN  \E v \in members :
                           \E q1, q2 \in Neighbours(v) \ members :
                               /\ q1 # q2
                               /\ color(b[q1]) # None
                               /\ color(b[q2]) # None
                               /\ b[q1].head = b[q2].head

\* ------------------------------------------------------------------ C22
\* The number of points of the board: no chain has more liberties
NumPoints == Cardinality(Playable)

\* sub_liberties(1) in place: the vertex is the head of an opponent chain and
\* its stored count is at least 1
SubInPlaceOk(c, b, head) ==
    /\ color(b[head]) = opposite(c)
    /\ b[head].head = head
    /\ b[head].libs >= 1

\* sub_liberties(1) and add_liberties in join_blocks, which both act when the
\* two heads differ: the count of head_two is at least 1 before the
\* subtraction, and the addition stays within the field
JoinInPlaceOk(b, one, two) ==
    LET head_one == b[one].head
        head_two == b[two].head
        b1 == [ b EXCEPT ![head_two] = sub_liberties(@, 1) ]
        n == CountAdditional(b1, AdjacentOfAll(b1, block_at(b1, one), 1), 1,
                             head_two, {}, 0)
    IN  head_one # head_two =>
            /\ b[head_two].head = head_two
            /\ b[head_two].libs >= 1
            /\ b1[head_two].libs + n <= NumPoints
            /\ b1[head_two].libs + n < LibertyModulus
            /\ join_blocks(b, one, two)[head_two].libs = b[head_two].libs - 1 + n

\* add_liberties(1) in capture, replayed one emptied vertex at a time from
\* member i on: no stored count wraps round or exceeds the number of points
RECURSIVE CaptureStepsWithinField(_, _, _)
CaptureStepsWithinField(b, points, i) ==
    IF i > Len(points) THEN TRUE
    ELSE LET v == points[i]
             b1 == [ b EXCEPT ![v].color = None ]
             b2 == incr_adjacent_liberties(b1, v)
         IN  /\ \A s \in Slots :
                   /\ b2[s].libs >= b1[s].libs
                   /\ b2[s].libs <= NumPoints
                   /\ b2[s].libs < LibertyModulus
             /\ CaptureStepsWithinField(b2, points, i + 1)

\* C22: in every legal placement, each sub_liberties(1) that place issues on an
\* opponent head and that join_blocks issues on head_two is applied to a head
\* whose stored liberty count is at least 1, and no add_liberties of
\* join_blocks or of capture takes a count past the number of points of the
\* board, let alone past the 9-bit field.
C22_LibertyFieldInRange ==
    \A c \in Colors, p \in Playable :
        is_valid(vertices, c, p) =>
            LET trace == place(vertices, c, p).trace
            IN  \A k \in 1 .. Len(trace) :
                    LET e == trace[k]
                    IN  /\ e[1] = "sub" => SubInPlaceOk(c, e[2], e[3])
                        /\ e[1] = "join" => JoinInPlaceOk(e[2], e[3], e[4])
                        /\ e[1] = "capture" =>
                               CaptureStepsWithinField(e[2], block_at(e[2], e[3]), 1)

\* Legal placements meet the boundary: one takes the last liberty of an
\* opponent chain (stored count 1), and one joins two chains whose head_two
\* has a stored count of 1
C22_Witness ==
    /\ \E c \in Colors, p \in Playable :
           /\ is_valid(vertices, c, p)
           /\ LET calls == CallsOf("sub", c, p)
              IN  \E k \in 1 .. Len(calls) : calls[k][2][calls[k][3]].libs = 1
    /\ \E c \in Colors, p \in Playable :
           /\ is_valid(vertices, c, p)
           /\ LET calls == CallsOf("join", c, p)
              IN  \E k \in 1 .. Len(calls) :
                      LET b == calls[k][2]
                          head_one == b[calls[k][3]].head
                          head_two == b[calls[k][4]].head
                      IN  head_one # head_two /\ b[head_two].libs = 1

\* ------------------------------------------------------------------ C23
\* The liberty counts a caller may ask has_n_liberty about
LibertyQueries == 0 .. NumPoints + 1

\* C23: for every stone p of a board reached by legal placements,
\* get_a_liberty(p) returns a point that is empty and 4-adjacent to a member of
\* the chain of p; it returns absent only when get_n_liberty(p) is 0, and
\* get_n_liberty(p) is 0 for no stone; has_n_liberty(p, n) is true exactly
\* when get_n_liberty(p) >= n.
C23_ALiberty ==
    \A p \in Stones(vertices) :
        LET result == get_a_liberty(vertices, p)
        IN  /\ result = Absent => get_n_liberty(vertices, p) = 0
            /\ get_n_liberty(vertices, p) # 0
            /\ result # Absent
            /\ \E q \in LibertiesOf(vertices, ChainMembers(vertices, p)) :
                   result = Some(q)
            /\ \A n \in LibertyQueries :
                   has_n_liberty(vertices, p, n) <=> get_n_liberty(vertices, p) >= n

\* A chain of several stones in atari whose liberty is not next to the stone
\* that is asked about: get_a_liberty walks past occupied neighbours and on to
\* another member of the chain
C23_Witness ==
    \E p \in Stones(vertices) :
        /\ Cardinality(ChainMembers(vertices, p)) >= 2
        /\ get_n_liberty(vertices, p) = 1
        /\ \E q \in Playable \ Neighbours(p) : get_a_liberty(vertices, p) = Some(q)
        /\ \E n \in Neighbours(p) : color(vertices[n]) = opposite(color(vertices[p]))

\* ------------------------------------------------------------------ C24
\* The list get_stone_status returns for the live and finished boards of this
\* state
StatusList == get_stone_status(live, vertices)

\* The territory label of a colour
TerritoryOf(c) == IF c = Black THEN BlackTerritory ELSE WhiteTerritory

\* The position of a point in Point::all()
PositionInAll(i) == CHOOSE k \in 1 .. Len(PointAll) : PointAll[k] = i

C25_NoAreaWithoutStone ==
    LET score == get_guess_score(live, vertices)
    IN  /\ (\A p \in Playable : color(Cleaned[p]) # Black) => score[1] = 0
        /\ (\A p \in Playable : color(Cleaned[p]) # White) => score[2] = 0

====
